---- MODULE Spec2Model ----
(***************************************************************************)
(* Model of Astrology/LifeOverview/detailed_life_events.py: the Wikipedia  *)
(* scraper (clean_text, extract_events, get_person_data), the per-person   *)
(* task (process_person) and the orchestrator (main): a pool of WORKERS    *)
(* threads, the as_completed loop with its periodic checkpoint, the row    *)
(* expansion and the final save.                                           *)
(*                                                                         *)
(* A text is a sequence of symbols.  A symbol is a one-character string    *)
(* (" ", "[", "1", ...) or a whole word ("career", "Early life") that the  *)
(* code only ever treats as an opaque run of non-space, non-digit          *)
(* characters; `keyword in text` is the occurrence of the keyword's symbol.*)
(***************************************************************************)
EXTENDS Integers, Sequences, FiniteSets, TLC

\* ---------------------------------------------------------------- bounds
\* Longest document body (number of sibling elements) that is enumerated.
MaxDocLen == 3
\* Largest roster of the orchestrator's specification.
MaxRoster == 5
\* Largest roster of the specification with fairness.
MaxLiveRoster == 4
\* Largest roster of the specification that enumerates every kind of page.
MaxPeople == 2
\* The checkpoint interval.  The source writes a checkpoint every 25 results
\* (line 190); the model keeps the test `len(results) % interval == 0` and
\* scales the interval down so that several checkpoints fit in a roster.
CheckpointEvery == 2

\* Longest text (number of characters) given to clean_text on its own.
MaxTextLen == 6
\* The length caps.  The source keeps 2000 characters of a cleaned text
\* (line 65), 3000 of an event's joined content (line 97) and 3000 of the
\* summary (line 131); the model keeps the slices and scales the caps down
\* so that texts longer than a cap are among those enumerated, a joined
\* content being cut only when it has more than one paragraph, as in the
\* source.
CleanCap == 3
ContentCap == 4
SummaryCap == 4

\* ------------------------------------------------------------- constants
WORKERS == 3

\* ------------------------------------------------------------------ state
VARIABLES
    records,        \* the roster read from INPUT_CSV, one dict per person
    worlds,         \* what the outside world may do during a task
    extraction,     \* per world: the infobox and events of its markup
    status,         \* per task: "pending" | "running" | "done"
    future,         \* per task that is done: what future.result() does
    env,            \* per task that is done: the world it ran in
    calls,          \* per task: the network calls it made
    completed,      \* the tasks that are done, in completion order
    consumed,       \* how many of them as_completed has yielded to main
    results,        \* main's list of results
    writes,         \* every write to OUTPUT_CSV that was attempted, in order
    output,         \* OUTPUT_CSV: who wrote it last, and its rows
    expanded_data,  \* main's list of expanded rows
    pc,             \* where main is: "submit", "loop", "expand", "save", "done"
    doc,            \* the document given to extract_events on its own
    events,         \* what extract_events returned for it
    raw,            \* the text given to clean_text on its own
    cleaned         \* what clean_text returned for it

vars == <<records, worlds, extraction, status, future, env, calls, completed, consumed, results,
          writes, output, expanded_data, pc, doc, events, raw, cleaned>>

\* ------------------------------------------------------------ text tools
Min(a, b) == IF a < b THEN a ELSE b

\* text[:n]
Take(text, n) == SubSeq(text, 1, Min(n, Len(text)))

Whitespace == {" ", "\n"}
Digits == {"1", "2"}

\* str.lower() on the symbols that have an upper-case letter.
LowerSym(c) ==
    CASE c = "Early life" -> "early life"
      [] c = "Career" -> "career"
      [] OTHER -> c

Lower(text) == [i \in 1..Len(text) |-> LowerSym(text[i])]

\* keyword in text
Contains(text, keyword) == \E i \in 1..Len(text) : text[i] = keyword

\* Number of digits of text starting at position i.
RECURSIVE DigitRun(_, _)
DigitRun(text, i) ==
    IF i <= Len(text) /\ text[i] \in Digits THEN 1 + DigitRun(text, i + 1) ELSE 0

\* Length of the match of \[\d+\] at position i, 0 when there is none.
CitationAt(text, i) ==
    IF i <= Len(text) /\ text[i] = "["
    THEN LET d == DigitRun(text, i + 1)
         IN IF d >= 1 /\ i + 1 + d <= Len(text) /\ text[i + 1 + d] = "]"
            THEN d + 2 ELSE 0
    ELSE 0

\* re.sub(r'\[\d+\]', '', text): one left-to-right pass over the
\* non-overlapping matches.
RECURSIVE SubCitations(_, _)
SubCitations(text, i) ==
    IF i > Len(text) THEN << >>
    ELSE LET m == CitationAt(text, i)
         IN IF m > 0 THEN SubCitations(text, i + m)
            ELSE <<text[i]>> \o SubCitations(text, i + 1)

\* re.sub(r'\s+', ' ', text): every maximal run of whitespace becomes " ".
RECURSIVE SubSpaces(_, _)
SubSpaces(text, i) ==
    IF i > Len(text) THEN << >>
    ELSE IF text[i] \in Whitespace
         THEN IF i > 1 /\ text[i - 1] \in Whitespace
              THEN SubSpaces(text, i + 1)
              ELSE <<" ">> \o SubSpaces(text, i + 1)
         ELSE <<text[i]>> \o SubSpaces(text, i + 1)

\* str.strip()
RECURSIVE LStrip(_)
LStrip(text) ==
    IF text # << >> /\ Head(text) \in Whitespace THEN LStrip(Tail(text)) ELSE text

RECURSIVE RStrip(_)
RStrip(text) ==
    IF text # << >> /\ text[Len(text)] \in Whitespace
    THEN RStrip(SubSeq(text, 1, Len(text) - 1)) ELSE text

Strip(text) == RStrip(LStrip(text))

\* WikipediaScraper.clean_text
clean_text(text) ==
    IF text = << >> THEN << >>
    ELSE Take(Strip(SubSpaces(SubCitations(text, 1), 1)), CleanCap)

\* ---------------------------------------------------------- the document
\* A parsed page body is the sequence of its sibling elements in document
\* order; an element has a tag name and its text (get_text()).
HeadingTags == {"h2", "h3"}

\* sections of extract_events, in the dict's insertion order.
sections ==
    << [name |-> "Early Life", keywords |-> <<"early life", "childhood", "education">>],
       [name |-> "Career", keywords |-> <<"career", "professional", "work">>],
       [name |-> "Achievements", keywords |-> <<"achievements", "awards", "honors">>],
       [name |-> "Personal Life", keywords |-> <<"personal life", "relationships", "family">>],
       [name |-> "Later Years", keywords |-> <<"later years", "retirement", "death">> ] >>

\* The lambda given to soup.find: an h2/h3 whose lower-cased text contains
\* the keyword.
HeadingMatches(elem, keyword) ==
    elem.name \in HeadingTags /\ Contains(Lower(elem.text), keyword)

\* soup.find(...): the first matching element in document order (its
\* position), 0 for None.
FindHeading(soup, keyword) ==
    IF \E i \in 1..Len(soup) : HeadingMatches(soup[i], keyword)
    THEN CHOOSE i \in 1..Len(soup) :
            /\ HeadingMatches(soup[i], keyword)
            /\ \A j \in 1..(i - 1) : ~HeadingMatches(soup[j], keyword)
    ELSE 0

\* The sibling loop without the test of the cleaned text: every p is kept,
\* an empty one too.
RECURSIVE SiblingContentKeepsEmpty(_, _)
SiblingContentKeepsEmpty(soup, i) ==
    IF i > Len(soup) THEN << >>
    ELSE IF soup[i].name \in HeadingTags THEN << >>
    ELSE IF soup[i].name = "p"
         THEN <<clean_text(soup[i].text)>> \o SiblingContentKeepsEmpty(soup, i + 1)
         ELSE SiblingContentKeepsEmpty(soup, i + 1)

\* The loop over heading.find_next_siblings() from position i on: stop at
\* the next h2/h3, keep the non-empty cleaned text of every p.
RECURSIVE SiblingContent(_, _)
SiblingContent(soup, i) ==
    IF i > Len(soup) THEN << >>
    ELSE IF soup[i].name \in HeadingTags THEN << >>
    ELSE IF soup[i].name = "p" /\ clean_text(soup[i].text) # << >>
         THEN <<clean_text(soup[i].text)>> \o SiblingContent(soup, i + 1)
         ELSE SiblingContent(soup, i + 1)

\* '\n'.join(content)
RECURSIVE Join(_)
Join(content) ==
    IF content = << >> THEN << >>
    ELSE IF Len(content) = 1 THEN content[1]
    ELSE content[1] \o <<"\n">> \o Join(Tail(content))

\* The keyword loop of one section with the joined content left uncut.
RECURSIVE SectionEventsUncut(_, _, _)
SectionEventsUncut(soup, section, k) ==
    IF k > Len(section.keywords) THEN << >>
    ELSE LET heading == FindHeading(soup, section.keywords[k])
         IN IF heading # 0
            THEN LET content == SiblingContent(soup, heading + 1)
                 IN IF content # << >>
                    THEN << [type |-> section.name, content |-> Join(content)] >>
                    ELSE << >>
            ELSE SectionEventsUncut(soup, section, k + 1)

\* The keyword loop of one section that goes on to the next keyword when
\* the heading found has no content.
RECURSIVE SectionEventsFallsThrough(_, _, _)
SectionEventsFallsThrough(soup, section, k) ==
    IF k > Len(section.keywords) THEN << >>
    ELSE LET heading == FindHeading(soup, section.keywords[k])
             content == IF heading # 0 THEN SiblingContent(soup, heading + 1) ELSE << >>
         IN IF content # << >>
            THEN << [type |-> section.name,
                     content |-> Take(Join(content), ContentCap)] >>
            ELSE SectionEventsFallsThrough(soup, section, k + 1)

\* The keyword loop of one section from the k-th keyword on: the first
\* keyword that finds a heading decides (break), whether or not the heading
\* has content.
RECURSIVE SectionEvents(_, _, _)
SectionEvents(soup, section, k) ==
    IF k > Len(section.keywords) THEN << >>
    ELSE LET heading == FindHeading(soup, section.keywords[k])
         IN IF heading # 0
            THEN LET content == SiblingContent(soup, heading + 1)
                 IN IF content # << >>
                    THEN << [type |-> section.name,
                             content |-> Take(Join(content), ContentCap)] >>
                    ELSE << >>
            ELSE SectionEvents(soup, section, k + 1)

\* The loop over sections.items() from the s-th section on.
RECURSIVE EventsFrom(_, _)
EventsFrom(soup, s) ==
    IF s > Len(sections) THEN << >>
    ELSE SectionEvents(soup, sections[s], 1) \o EventsFrom(soup, s + 1)

\* extract_events that gives a heading to the first category only: a later
\* category whose keyword loop commits to a heading already used emits
\* nothing.
RECURSIVE EventsFromExclusive(_, _, _)
EventsFromExclusive(soup, s, used) ==
    IF s > Len(sections) THEN << >>
    ELSE LET found == {k \in 1..Len(sections[s].keywords) :
                          FindHeading(soup, sections[s].keywords[k]) # 0}
             heading == IF found = {} THEN 0
                        ELSE FindHeading(soup, sections[s].keywords[
                                CHOOSE k \in found : \A m \in found : k <= m])
         IN IF heading \in used
            THEN EventsFromExclusive(soup, s + 1, used)
            ELSE SectionEvents(soup, sections[s], 1)
                    \o EventsFromExclusive(soup, s + 1, used \cup ({heading} \ {0}))

extract_events_exclusive(soup) == EventsFromExclusive(soup, 1, {})

\* WikipediaScraper.extract_events
extract_events(soup) == EventsFrom(soup, 1)

\* ------------------------------------------------- the scraper's one call
\* name.replace(' ', '_')
Replace(text, old, new) ==
    [i \in 1..Len(text) |-> IF text[i] = old THEN new ELSE text[i]]

\* The URL built from the name percent-encoded, not from the identifier.
PageUrlQuoted(name) == <<"https://en.wikipedia.org/wiki/">> \o Replace(name, " ", "%20")

PageUrl(name) == <<"https://en.wikipedia.org/wiki/">> \o Replace(name, " ", "_")

\* soup.find('table', {'class': 'infobox'}): position of the first such
\* table of the parsed markup, 0 for None.
FindInfobox(tables) ==
    IF \E i \in 1..Len(tables) : tables[i].class = "infobox"
    THEN CHOOSE i \in 1..Len(tables) :
            /\ tables[i].class = "infobox"
            /\ \A j \in 1..(i - 1) : tables[j].class # "infobox"
    ELSE 0

\* The loop over infobox_table.find_all('tr') from row r on, filling the
\* dict: a row counts when it has a th and a td (a cell is a sequence of
\* zero or one texts) and both cleaned texts are non-empty; a later row
\* with the same key overwrites.
RECURSIVE InfoboxRows(_, _, _)
InfoboxRows(rows, r, infobox) ==
    IF r > Len(rows) THEN infobox
    ELSE LET row == rows[r]
         IN IF row.th # << >> /\ row.td # << >>
            THEN LET key == clean_text(row.th[1])
                     value == clean_text(row.td[1])
                 IN IF key # << >> /\ value # << >>
                    THEN InfoboxRows(rows, r + 1,
                            [k \in DOMAIN infobox \cup {key} |->
                                IF k = key THEN value ELSE infobox[k]])
                    ELSE InfoboxRows(rows, r + 1, infobox)
            ELSE InfoboxRows(rows, r + 1, infobox)

EmptyDict == [k \in {} |-> << >>]

ExtractInfobox(tables) ==
    IF FindInfobox(tables) # 0
    THEN InfoboxRows(tables[FindInfobox(tables)].rows, 1, EmptyDict)
    ELSE EmptyDict

\* ------------------------------------------------------------- the worlds
\* Markup with an infobox and a section whose heading carries keywords of
\* two categories.
MarkupA ==
    [tables |-> << [class |-> "wikitable", rows |-> << [th |-> << <<"x">> >>, td |-> << <<"y">> >>] >>],
                   [class |-> "infobox",
                    rows |-> << [th |-> << <<"Born">> >>, td |-> << <<"1815", "[", "1", "]">> >>],
                                [th |-> << <<"Title">> >>, td |-> << >>] >>] >>,
     body |-> << [name |-> "p", text |-> <<"lead">>],
                 [name |-> "h2", text |-> <<"personal life", " ", "and", " ", "death">>],
                 [name |-> "p", text |-> <<"a", " ", " ", "b">>] >>]

\* Markup with a matching heading that has no paragraph, and no infobox.
MarkupB ==
    [tables |-> << >>,
     body |-> << [name |-> "h2", text |-> <<"Career">>],
                 [name |-> "h2", text |-> <<"references">>],
                 [name |-> "p", text |-> <<"c">>] >>]

\* The body of an error page of the server.
MarkupError ==
    [tables |-> << >>,
     body |-> << [name |-> "h1", text |-> <<"Service", " ", "Unavailable">>],
                 [name |-> "p", text |-> <<"try", " ", "later">>] >>]

\* Markup with a section of every category.
MarkupFull ==
    [tables |-> << >>,
     body |-> << [name |-> "h2", text |-> <<"Early life">>],
                 [name |-> "p", text |-> <<"a">>],
                 [name |-> "h2", text |-> <<"Career">>],
                 [name |-> "p", text |-> <<"b">>],
                 [name |-> "p", text |-> <<"c">>],
                 [name |-> "h3", text |-> <<"awards">>],
                 [name |-> "p", text |-> <<"d">>],
                 [name |-> "h2", text |-> <<"family">>],
                 [name |-> "p", text |-> <<"e">>],
                 [name |-> "h2", text |-> <<"death">>],
                 [name |-> "p", text |-> <<"f">>] >>]

\* Markup whose texts are longer than the caps: the profile value once
\* cleaned, each paragraph of the section, and the two paragraphs joined.
MarkupLong ==
    [tables |-> << [class |-> "infobox",
                    rows |-> << [th |-> << <<"Born">> >>,
                                 td |-> << <<"1", "8", "1", "5", "[", "1", "]", " ", "a", "t">> >>] >>] >>,
     body |-> << [name |-> "h2", text |-> <<"Career">>],
                 [name |-> "p", text |-> <<"a", "b", " ", " ", "c", "d", "e">>],
                 [name |-> "p", text |-> <<"f", "[", "1", "]", "g", "h", "i", "j">>] >>]

\* What the outside world does during one call of process_person:
\*   scraper  "ok" | "raise"       WikipediaScraper() (outside the try)
\*   lookup   "exists" | "missing" | "raise"     page.exists()
\*   get      "response" | "raise"               session.get(url, timeout=15)
\*   status, tables, body          the response and its parsed markup
\*   parse    "ok" | "raise"       BeautifulSoup / find / get_text
\*   message  str(e) of the exception raised, if one is
\*   summary  page.summary
World(scraper, lookup, get, code, markup, parse, message) ==
    [scraper |-> scraper, lookup |-> lookup, get |-> get, status |-> code,
     tables |-> markup.tables, body |-> markup.body, parse |-> parse,
     message |-> message, summary |-> <<"summary">>]

ScraperFault == World("raise", "exists", "response", 200, MarkupA, "ok", "cannot start")
PageMissing == World("ok", "missing", "response", 200, MarkupA, "ok", "")
PageFound == World("ok", "exists", "response", 200, MarkupA, "ok", "")
PageBare == World("ok", "exists", "response", 200, MarkupB, "ok", "")
PageFull == World("ok", "exists", "response", 200, MarkupFull, "ok", "")
GetTimeout == World("ok", "exists", "raise", 200, MarkupA, "ok", "Read timed out")
LookupFault == World("ok", "raise", "response", 200, MarkupA, "ok", "Connection aborted")
ServerError == World("ok", "exists", "response", 503, MarkupError, "ok", "")
ParseCrash == World("ok", "exists", "response", 200, MarkupA, "raise", "")
PageLong ==
    [World("ok", "exists", "response", 200, MarkupLong, "ok", "")
        EXCEPT !.summary = <<"s", "u", "m", "m", "a", "r", "y">>]

\* The worlds of the orchestrator's specification, and all of them.
FewWorlds == {ScraperFault, PageFound}
AllWorlds == {ScraperFault, PageMissing, PageFound, PageBare, PageFull, GetTimeout,
              LookupFault, ServerError, ParseCrash, PageLong}

\* soup = BeautifulSoup(response.text, 'html.parser') and the two
\* extractions from it.  They depend on the markup alone, and the run holds
\* them per world in `extraction`.
Extract(world) ==
    [infobox |-> ExtractInfobox(world.tables),
     events |-> extract_events(world.body)]

\* The network calls get_person_data makes in that world, in order.
network_calls(name, world) ==
    IF world.lookup # "exists"
    THEN << [op |-> "page", id |-> Replace(name, " ", "_")] >>
    ELSE << [op |-> "page", id |-> Replace(name, " ", "_")],
            [op |-> "get", id |-> Tail(PageUrl(name))] >>

\* get_person_data without the page.exists() test.
get_person_data_unchecked(name, world) ==
    IF world.lookup = "raise" THEN [error |-> world.message]
    ELSE IF world.get = "raise" THEN [error |-> world.message]
    ELSE IF world.parse = "raise" THEN [error |-> world.message]
    ELSE [summary |-> Take(world.summary, SummaryCap),
          infobox |-> extraction[world].infobox,
          events |-> extraction[world].events,
          url |-> PageUrl(name)]

\* WikipediaScraper.get_person_data: the dict returned.  Every exception
\* raised inside the try becomes {'error': str(e)}; the response's status
\* is never looked at.
get_person_data(name, world) ==
    IF world.lookup = "raise" THEN [error |-> world.message]
    ELSE IF world.lookup = "missing" THEN [error |-> "Page not found"]
    ELSE IF world.get = "raise" THEN [error |-> world.message]
    ELSE IF world.parse = "raise" THEN [error |-> world.message]
    ELSE [summary |-> Take(world.summary, SummaryCap),
          infobox |-> extraction[world].infobox,
          events |-> extraction[world].events,
          url |-> PageUrl(name)]

\* dict.get(key, default)
Get(dict, key, default) == IF key \in DOMAIN dict THEN dict[key] ELSE default

\* process_person, when it returns: the result dict.  Name stands for the
\* roster's columns, which are copied into the result; Infobox is the set
\* of Infobox_<key> entries.
PersonResult(person, data) ==
    [Name |-> person.Name,
     Wikipedia_URL |-> Get(data, "url", << >>),
     Summary |-> Get(data, "summary", << >>),
     Error |-> Get(data, "error", ""),
     Infobox |-> Get(data, "infobox", EmptyDict),
     Events |-> Get(data, "events", << >>)]

\* process_person with the parsing outside get_person_data's try: a parsing
\* fault reaches the future.
process_person_parse_escapes(person, world) ==
    IF world.scraper = "raise"
       \/ (world.lookup = "exists" /\ world.get = "response" /\ world.parse = "raise")
    THEN [raised |-> TRUE, exception |-> world.message]
    ELSE [raised |-> FALSE,
          result |-> PersonResult(person, get_person_data(person.Name, world))]

\* process_person: what the future holds when the task is over, an
\* exception (raised outside get_person_data's try) or the result.
process_person(person, world) ==
    IF world.scraper = "raise"
    THEN [raised |-> TRUE, exception |-> world.message]
    ELSE [raised |-> FALSE,
          result |-> PersonResult(person, get_person_data(person.Name, world))]

\* ------------------------------------------------------------ initial state
Tasks == 1..Len(records)

\* The roster: person i of a roster of n.  Names differ, and in the number
\* of spaces they hold too.
Person(i) == [Name |-> <<"Person">> \o [k \in 1..i |-> " "] \o <<ToString(i)>>]

NoFuture == [raised |-> FALSE]
NoWorld == World("none", "none", "none", 0, MarkupB, "none", "")
NoOutput == [writer |-> "nobody", rows |-> << >>]

InitMain(n, ws) ==
    /\ records = [i \in 1..n |-> Person(i)]
    /\ worlds = ws
    /\ extraction = [world \in ws |-> Extract(world)]
    /\ status = [i \in 1..n |-> "unsubmitted"]
    /\ future = [i \in 1..n |-> NoFuture]
    /\ env = [i \in 1..n |-> NoWorld]
    /\ calls = [i \in 1..n |-> << >>]
    /\ completed = << >>
    /\ consumed = 0
    /\ results = << >>
    /\ writes = << >>
    /\ output = NoOutput
    /\ expanded_data = << >>
    /\ pc = "submit"
    /\ doc = << >>
    /\ raw = << >>
    /\ cleaned = << >>
    /\ events = << >>

Init == \E n \in 0..MaxRoster : InitMain(n, FewWorlds)

InitLive == \E n \in 0..MaxLiveRoster : InitMain(n, FewWorlds)

InitPeople == \E n \in 0..MaxPeople : InitMain(n, AllWorlds)

\* ---------------------------------------------------------- the executor
Running == {i \in Tasks : status[i] = "running"}

\* futures = [executor.submit(process_person, record) for record in records]
Submit ==
    /\ pc = "submit"
    /\ status' = [i \in Tasks |-> "pending"]
    /\ pc' = "loop"
    /\ UNCHANGED <<records, worlds, extraction, future, env, calls, completed, consumed, results,
                   writes, output, expanded_data, doc, events, raw, cleaned>>

\* An executor that starts a thread for every task submitted.
StartUnbounded(i) ==
    /\ status[i] = "pending"
    /\ \A j \in 1..(i - 1) : status[j] # "pending"
    /\ status' = [status EXCEPT ![i] = "running"]
    /\ UNCHANGED <<records, worlds, extraction, future, env, calls, completed, consumed, results,
                   writes, output, expanded_data, pc, doc, events, raw, cleaned>>

\* A free worker thread takes the oldest task of the executor's queue.
Start(i) ==
    /\ status[i] = "pending"
    /\ \A j \in 1..(i - 1) : status[j] # "pending"
    /\ Cardinality(Running) < WORKERS
    /\ status' = [status EXCEPT ![i] = "running"]
    /\ UNCHANGED <<records, worlds, extraction, future, env, calls, completed, consumed, results,
                   writes, output, expanded_data, pc, doc, events, raw, cleaned>>

\* A worker that puts a task that raised back into the executor's queue.
FinishResubmits(i) ==
    /\ status[i] = "running"
    /\ \E world \in worlds :
        /\ future' = [future EXCEPT ![i] = process_person(records[i], world)]
        /\ env' = [env EXCEPT ![i] = world]
        /\ calls' = [calls EXCEPT ![i] =
                        IF world.scraper = "raise" THEN << >>
                        ELSE network_calls(records[i].Name, world)]
        /\ status' = [status EXCEPT ![i] =
                        IF world.scraper = "raise" THEN "pending" ELSE "done"]
    /\ completed' = Append(completed, i)
    /\ UNCHANGED <<records, worlds, extraction, consumed, results, writes, output,
                   expanded_data, pc, doc, events, raw, cleaned>>

\* The worker runs process_person(record) to its end and sets the future.
Finish(i) ==
    /\ status[i] = "running"
    /\ \E world \in worlds :
        /\ future' = [future EXCEPT ![i] = process_person(records[i], world)]
        /\ env' = [env EXCEPT ![i] = world]
        /\ calls' = [calls EXCEPT ![i] =
                        IF world.scraper = "raise" THEN << >>
                        ELSE network_calls(records[i].Name, world)]
    /\ status' = [status EXCEPT ![i] = "done"]
    /\ completed' = Append(completed, i)
    /\ UNCHANGED <<records, worlds, extraction, consumed, results, writes, output,
                   expanded_data, pc, doc, events, raw, cleaned>>

\* ------------------------------------------------------ main's loop body
\* The future as_completed yields next.
NextFuture == completed[consumed + 1]

\* A checkpoint at every append once the interval is reached.
CheckpointDueFromInterval(list) == Len(list) >= CheckpointEvery

\* len(results) % 25 == 0, with the interval of the model.
CheckpointDue(list) == Len(list) % CheckpointEvery = 0

\* The except clause records the exception as a result of its own.
ConsumeRaisedAppends ==
    /\ pc = "loop"
    /\ consumed < Len(completed)
    /\ future[NextFuture].raised
    /\ consumed' = consumed + 1
    /\ results' = Append(results,
                     PersonResult(records[NextFuture],
                                  [error |-> future[NextFuture].exception]))
    /\ UNCHANGED <<records, worlds, extraction, status, future, env, calls, completed,
                   writes, output, expanded_data, pc, doc, events, raw, cleaned>>

\* The except clause ends the loop instead of going on with the next future.
ConsumeRaisedStops ==
    /\ pc = "loop"
    /\ consumed < Len(completed)
    /\ future[NextFuture].raised
    /\ consumed' = consumed + 1
    /\ pc' = "expand"
    /\ UNCHANGED <<records, worlds, extraction, status, future, env, calls, completed, results,
                   writes, output, expanded_data, doc, events, raw, cleaned>>

\* future.result() raises: the except clause prints, nothing is appended.
ConsumeRaised ==
    /\ pc = "loop"
    /\ consumed < Len(completed)
    /\ future[NextFuture].raised
    /\ consumed' = consumed + 1
    /\ UNCHANGED <<records, worlds, extraction, status, future, env, calls, completed, results,
                   writes, output, expanded_data, pc, doc, events, raw, cleaned>>

\* The result is put at the front of the list instead of its end.
ConsumeAppendFront ==
    /\ pc = "loop"
    /\ consumed < Len(completed)
    /\ ~future[NextFuture].raised
    /\ ~CheckpointDue(Append(results, future[NextFuture].result))
    /\ results' = <<future[NextFuture].result>> \o results
    /\ consumed' = consumed + 1
    /\ UNCHANGED <<records, worlds, extraction, status, future, env, calls, completed, writes,
                   output, expanded_data, pc, doc, events, raw, cleaned>>

\* results.append(future.result()), no checkpoint due.
ConsumeAppend ==
    /\ pc = "loop"
    /\ consumed < Len(completed)
    /\ ~future[NextFuture].raised
    /\ ~CheckpointDue(Append(results, future[NextFuture].result))
    /\ results' = Append(results, future[NextFuture].result)
    /\ consumed' = consumed + 1
    /\ UNCHANGED <<records, worlds, extraction, status, future, env, calls, completed, writes,
                   output, expanded_data, pc, doc, events, raw, cleaned>>

\* results.append(future.result()) and pd.DataFrame(results).to_csv(...):
\* the compact snapshot of the whole list replaces the file.
ConsumeCheckpoint ==
    /\ pc = "loop"
    /\ consumed < Len(completed)
    /\ ~future[NextFuture].raised
    /\ CheckpointDue(Append(results, future[NextFuture].result))
    /\ results' = Append(results, future[NextFuture].result)
    /\ consumed' = consumed + 1
    /\ writes' = Append(writes, [kind |-> "checkpoint", ok |-> TRUE, at |-> consumed',
                                 rows |-> results'])
    /\ output' = [writer |-> "checkpoint", rows |-> results']
    /\ UNCHANGED <<records, worlds, extraction, status, future, env, calls, completed,
                   expanded_data, pc, doc, events, raw, cleaned>>

\* A failed checkpoint write that takes the appended result back.
ConsumeCheckpointFailsDrops ==
    /\ pc = "loop"
    /\ consumed < Len(completed)
    /\ ~future[NextFuture].raised
    /\ CheckpointDue(Append(results, future[NextFuture].result))
    /\ consumed' = consumed + 1
    /\ writes' = Append(writes, [kind |-> "checkpoint", ok |-> FALSE, at |-> consumed',
                                 rows |-> Append(results, future[NextFuture].result)])
    /\ output' \in {output, [writer |-> "checkpoint", rows |-> << >>]}
    /\ UNCHANGED <<records, worlds, extraction, status, future, env, calls, completed, results,
                   expanded_data, pc, doc, events, raw, cleaned>>

\* The same, but to_csv raises: the except clause prints; the file is left
\* as it was or is left truncated.
ConsumeCheckpointFails ==
    /\ pc = "loop"
    /\ consumed < Len(completed)
    /\ ~future[NextFuture].raised
    /\ CheckpointDue(Append(results, future[NextFuture].result))
    /\ results' = Append(results, future[NextFuture].result)
    /\ consumed' = consumed + 1
    /\ writes' = Append(writes, [kind |-> "checkpoint", ok |-> FALSE, at |-> consumed',
                                 rows |-> results'])
    /\ output' \in {output, [writer |-> "checkpoint", rows |-> << >>]}
    /\ UNCHANGED <<records, worlds, extraction, status, future, env, calls, completed,
                   expanded_data, pc, doc, events, raw, cleaned>>

\* The loop is left as soon as no completed future is waiting.
LoopEndWhenDrained ==
    /\ pc = "loop"
    /\ consumed = Len(completed)
    /\ pc' = "expand"
    /\ UNCHANGED <<records, worlds, extraction, status, future, env, calls, completed, consumed,
                   results, writes, output, expanded_data, doc, events, raw, cleaned>>

\* as_completed is exhausted and the with block is left: every future is
\* done.
LoopEnd ==
    /\ pc = "loop"
    /\ consumed = Len(records)
    /\ pc' = "expand"
    /\ UNCHANGED <<records, worlds, extraction, status, future, env, calls, completed, consumed,
                   results, writes, output, expanded_data, doc, events, raw, cleaned>>

\* -------------------------------------------------------- row expansion
\* base_info = {k: v for k, v in person.items() if k != 'Events'}
BaseInfo(person) == [k \in DOMAIN person \ {"Events"} |-> person[k]]

\* expanded = base_info.copy(); expanded.update({...})
ExpandedRow(base_info, event) ==
    ("Event_Type" :> event.type) @@ ("Event_Details" :> event.content) @@ base_info

\* ExpandPerson without its else branch: a result without events gets no row.
ExpandPersonNoElse(person) ==
    IF Get(person, "Events", << >>) # << >>
    THEN [e \in 1..Len(person.Events) |-> ExpandedRow(BaseInfo(person), person.Events[e])]
    ELSE << >>

\* The body of `for person in results`: the rows one result contributes.
ExpandPerson(person) ==
    IF Get(person, "Events", << >>) # << >>
    THEN [e \in 1..Len(person.Events) |-> ExpandedRow(BaseInfo(person), person.Events[e])]
    ELSE << BaseInfo(person) >>

\* The loop `for person in results` from the i-th result on.
RECURSIVE ExpandFrom(_, _)
ExpandFrom(list, i) ==
    IF i > Len(list) THEN << >>
    ELSE ExpandPerson(list[i]) \o ExpandFrom(list, i + 1)

Expand ==
    /\ pc = "expand"
    /\ expanded_data' = ExpandFrom(results, 1)
    /\ pc' = "save"
    /\ UNCHANGED <<records, worlds, extraction, status, future, env, calls, completed, consumed,
                   results, writes, output, doc, events, raw, cleaned>>

\* A final save that is skipped when the last append wrote a checkpoint.
SaveUnlessCheckpointed ==
    /\ pc = "save"
    /\ pc' = "done"
    /\ IF results # << >> /\ CheckpointDue(results)
       THEN UNCHANGED <<writes, output>>
       ELSE /\ writes' = Append(writes, [kind |-> "final", ok |-> TRUE, at |-> consumed,
                                         rows |-> expanded_data])
            /\ output' = [writer |-> "final", rows |-> expanded_data]
    /\ UNCHANGED <<records, worlds, extraction, status, future, env, calls, completed, consumed,
                   results, expanded_data, doc, events, raw, cleaned>>

\* pd.DataFrame(expanded_data).to_csv(OUTPUT_CSV, index=False)
Save ==
    /\ pc = "save"
    /\ writes' = Append(writes, [kind |-> "final", ok |-> TRUE, at |-> consumed,
                                 rows |-> expanded_data])
    /\ output' = [writer |-> "final", rows |-> expanded_data]
    /\ pc' = "done"
    /\ UNCHANGED <<records, worlds, extraction, status, future, env, calls, completed, consumed,
                   results, expanded_data, doc, events, raw, cleaned>>

Next ==
    \/ Submit
    \/ \E i \in Tasks : Start(i)
    \/ \E i \in Tasks : Finish(i)
    \/ ConsumeRaised
    \/ ConsumeAppend
    \/ ConsumeCheckpoint
    \/ ConsumeCheckpointFails
    \/ LoopEnd
    \/ Expand
    \/ Save

Spec == Init /\ [][Next]_vars

\* Every task returns or raises in the end, a free worker takes the next
\* task, and main runs on: the program does not stop while a step is possible.
SpecLive == InitLive /\ [][Next]_vars /\ WF_vars(Next)

SpecPeople == InitPeople /\ [][Next]_vars

\* ------------------------------------- extract_events on a document alone
\* The elements a document body is built from.
Elements ==
    { [name |-> "h2", text |-> <<"Early life">>],
      [name |-> "h2", text |-> <<"early life", " ", "and", " ", "career">>],
      [name |-> "h3", text |-> <<"education">>],
      [name |-> "h2", text |-> <<"personal life", " ", "and", " ", "death">>],
      [name |-> "h3", text |-> <<"work">>],
      [name |-> "h2", text |-> <<"references">>],
      [name |-> "h1", text |-> <<"career">>],
      [name |-> "div", text |-> <<"death">>],
      [name |-> "p", text |-> <<"a">>],
      [name |-> "p", text |-> <<" ", "\n">>],
      [name |-> "p", text |-> <<"b", "[", "1", "]">>] }

Documents == UNION {[1..n -> Elements] : n \in 0..MaxDocLen}

InitExtract ==
    /\ records = << >>
    /\ worlds = {}
    /\ extraction = << >>
    /\ status = << >>
    /\ future = << >>
    /\ env = << >>
    /\ calls = << >>
    /\ completed = << >>
    /\ consumed = 0
    /\ results = << >>
    /\ writes = << >>
    /\ output = NoOutput
    /\ expanded_data = << >>
    /\ pc = "extract"
    /\ doc \in Documents
    /\ events = << >>
    /\ raw = << >>
    /\ cleaned = << >>

\* events = self.extract_events(soup)
ExtractEvents ==
    /\ pc = "extract"
    /\ events' = extract_events(doc)
    /\ pc' = "extracted"
    /\ UNCHANGED <<records, worlds, extraction, status, future, env, calls, completed, consumed,
                   results, writes, output, expanded_data, doc, raw, cleaned>>

NextExtract == ExtractEvents

SpecExtract == InitExtract /\ [][NextExtract]_vars

\* --------------------------------------------------- clean_text on its own
\* The characters of the texts enumerated: a letter, both kinds of
\* whitespace, the brackets and a digit.
Characters == {"a", " ", "\n", "[", "]", "1"}

Texts == UNION {[1..n -> Characters] : n \in 0..MaxTextLen}

InitClean ==
    /\ records = << >>
    /\ worlds = {}
    /\ extraction = << >>
    /\ status = << >>
    /\ future = << >>
    /\ env = << >>
    /\ calls = << >>
    /\ completed = << >>
    /\ consumed = 0
    /\ results = << >>
    /\ writes = << >>
    /\ output = NoOutput
    /\ expanded_data = << >>
    /\ pc = "clean"
    /\ doc = << >>
    /\ events = << >>
    /\ raw \in Texts
    /\ cleaned = << >>

\* text = self.clean_text(...)
CleanText ==
    /\ pc = "clean"
    /\ cleaned' = clean_text(raw)
    /\ pc' = "cleaned"
    /\ UNCHANGED <<records, worlds, extraction, status, future, env, calls, completed, consumed,
                   results, writes, output, expanded_data, doc, events, raw>>

NextClean == CleanText

SpecClean == InitClean /\ [][NextClean]_vars

\* Every text the program cuts: the runs over every kind of page, and
\* clean_text over the enumerated texts.
InitCaps == InitPeople \/ InitClean

NextCaps == Next \/ NextClean

SpecCaps == InitCaps /\ [][NextCaps]_vars

\* ================================================================ claims
Max(a, b) == IF a > b THEN a ELSE b

EventFields == {"Event_Type", "Event_Details"}
NonEventFields == {"Name", "Wikipedia_URL", "Summary", "Error", "Infobox"}

\* The rows of a table that belong to the person of task i.
RowsOf(rows, i) == {r \in 1..Len(rows) : rows[r].Name = records[i].Name}

\* The number of rows the first i results are entitled to.
RECURSIVE RowsDue(_, _)
RowsDue(list, i) ==
    IF i = 0 THEN 0 ELSE RowsDue(list, i - 1) + Max(Len(list[i].Events), 1)

\* C1: in the final output every result with k events has exactly max(k,1)
\* rows, consecutive and in the order of the results; each of them repeats
\* every non-event field of the result; for k >= 1 the j-th row carries the
\* type and content of the j-th event, for k = 0 the one row has neither
\* Event_Type nor Event_Details.
C1_RowExpansion ==
    pc = "done" =>
        /\ Len(output.rows) = RowsDue(results, Len(results))
        /\ \A i \in 1..Len(results) :
            LET k == Len(results[i].Events)
                first == RowsDue(results, i - 1)
            IN \A j \in 1..Max(k, 1) :
                LET row == output.rows[first + j]
                IN /\ DOMAIN row \ EventFields = NonEventFields
                   /\ \A f \in NonEventFields : row[f] = results[i][f]
                   /\ IF k >= 1
                      THEN /\ row.Event_Type = results[i].Events[j].type
                           /\ row.Event_Details = results[i].Events[j].content
                      ELSE DOMAIN row \cap EventFields = {}

\* C1's case: the run is over with a result of five events, and one of none.
C1_Witness ==
    /\ pc = "done"
    /\ \E i \in 1..Len(results) : Len(results[i].Events) = 5
    /\ \E i \in 1..Len(results) : Len(results[i].Events) = 0 /\ results[i].Error = ""

\* C2: a task whose page lookup says the page does not exist returns the
\* failure 'Page not found' without requesting the markup, and the final
\* output has exactly one row for the person, with that Error and with
\* Wikipedia_URL, Summary, the Infobox_ columns and the event fields empty.
C2_PageNotFound ==
    \A i \in Tasks :
        (status[i] = "done" /\ env[i].scraper = "ok" /\ env[i].lookup = "missing") =>
            /\ ~future[i].raised
            /\ future[i].result.Error = "Page not found"
            /\ \A c \in 1..Len(calls[i]) : calls[i][c].op # "get"
            /\ pc = "done" =>
                /\ Cardinality(RowsOf(output.rows, i)) = 1
                /\ \A r \in RowsOf(output.rows, i) :
                    /\ output.rows[r].Error = "Page not found"
                    /\ output.rows[r].Wikipedia_URL = << >>
                    /\ output.rows[r].Summary = << >>
                    /\ output.rows[r].Infobox = EmptyDict
                    /\ DOMAIN output.rows[r] \cap EventFields = {}

\* C2's case: the run is over and a person's page did not exist.
C2_Witness ==
    /\ pc = "done"
    /\ \E i \in Tasks : env[i].scraper = "ok" /\ env[i].lookup = "missing"

\* The checkpoint writes that succeeded, as positions of the write log.
Checkpoints == {w \in 1..Len(writes) : writes[w].kind = "checkpoint" /\ writes[w].ok}

\* How many of the first n completed tasks returned (did not raise).
Returned(n) == Cardinality({c \in 1..n : ~future[completed[c]].raised})

\* C3 as claimed: a checkpoint taken after the N-th completed task, N a
\* multiple of the interval, holds exactly N records, and checkpoints never
\* shrink.
C3_AsClaimed ==
    /\ \A w \in Checkpoints :
        writes[w].at % CheckpointEvery = 0 => Len(writes[w].rows) = writes[w].at
    /\ \A v, w \in Checkpoints :
        v < w => Len(writes[v].rows) <= Len(writes[w].rows)

\* C3, amended: a checkpoint is taken when the number N of results (the
\* completed tasks that returned) is a positive multiple of the interval and
\* holds exactly N records, which is at most the number of completed tasks;
\* a later checkpoint holds at least as many records as an earlier one.
C3_CheckpointSize ==
    /\ \A w \in Checkpoints :
        /\ Len(writes[w].rows) = Returned(writes[w].at)
        /\ Len(writes[w].rows) % CheckpointEvery = 0
        /\ Len(writes[w].rows) > 0
        /\ Len(writes[w].rows) <= writes[w].at
    /\ \A v, w \in Checkpoints :
        v < w => Len(writes[v].rows) <= Len(writes[w].rows)

\* C3's case: a second checkpoint was written after a task had raised.
C3_Witness ==
    \E v, w \in Checkpoints :
        /\ v < w
        /\ Len(writes[w].rows) < writes[w].at

\* The keywords of section s that some heading of the document matches.
KeywordsFound(body, s) ==
    {k \in 1..Len(sections[s].keywords) : FindHeading(body, sections[s].keywords[k]) # 0}

\* The heading section s selects: the first heading matching the first
\* keyword that matches any heading; 0 when no keyword does.
SelectedHeading(body, s) ==
    IF KeywordsFound(body, s) = {} THEN 0
    ELSE FindHeading(body, sections[s].keywords[
            CHOOSE k \in KeywordsFound(body, s) : \A m \in KeywordsFound(body, s) : k <= m])

\* The positions of the events of a category.
EventsOfType(list, name) == {e \in 1..Len(list) : list[e].type = name}

\* Pairs of sections that select the same heading.
SharedHeadings(body) ==
    {p \in (1..Len(sections)) \X (1..Len(sections)) :
        /\ p[1] < p[2]
        /\ SelectedHeading(body, p[1]) # 0
        /\ SelectedHeading(body, p[1]) = SelectedHeading(body, p[2])}

\* C4 as claimed: a heading selected for two categories yields at most one
\* event, attributed to the first of them; never an event under both.
C4_AsClaimed ==
    pc = "extracted" =>
        \A p \in SharedHeadings(doc) :
            /\ EventsOfType(events, sections[p[2]].name) = {}
            /\ Cardinality(EventsOfType(events, sections[p[1]].name)) <= 1

\* C4, amended: a heading selected for two categories yields one event for
\* each of the two when paragraphs with text follow it (and none for either
\* when none does); the two events carry the same content, and the event of
\* the category that is earlier in the fixed order comes first.
C4_SharedHeading ==
    pc = "extracted" =>
        \A p \in SharedHeadings(doc) :
            LET first == EventsOfType(events, sections[p[1]].name)
                second == EventsOfType(events, sections[p[2]].name)
            IN IF SiblingContent(doc, SelectedHeading(doc, p[1]) + 1) # << >>
               THEN /\ Cardinality(first) = 1
                    /\ Cardinality(second) = 1
                    /\ \A e \in first : \A f \in second :
                        /\ e < f
                        /\ events[e].content = events[f].content
               ELSE first = {} /\ second = {}

\* C4's case: a heading with text after it was selected for two categories.
C4_Witness ==
    /\ pc = "extracted"
    /\ \E p \in SharedHeadings(doc) :
        SiblingContent(doc, SelectedHeading(doc, p[1]) + 1) # << >>

\* A network-level fault of a task: the lookup or the markup request raises
\* (timeout, transport error), or the markup request is answered with a
\* non-success status.
NetworkFault(world) ==
    /\ world.scraper = "ok"
    /\ \/ world.lookup = "raise"
       \/ /\ world.lookup = "exists"
          /\ (world.get = "raise" \/ world.status \notin 200..299)

\* A result that is a failure: nothing but the error.
IsFailure(result) ==
    /\ result.Wikipedia_URL = << >>
    /\ result.Summary = << >>
    /\ result.Infobox = EmptyDict
    /\ result.Events = << >>

\* C5: every network-level fault of a task (timeout, transport error,
\* non-success status of the markup request) makes the task return a
\* failure: non-empty Error, and no url, summary, profile or events.
C5_AsClaimed ==
    \A i \in Tasks :
        (status[i] = "done" /\ NetworkFault(env[i])) =>
            /\ ~future[i].raised
            /\ future[i].result.Error # ""
            /\ IsFailure(future[i].result)

\* A task whose document was fetched and whose parsing raised.
ParseFault(world) ==
    /\ world.scraper = "ok"
    /\ world.lookup = "exists"
    /\ world.get = "response"
    /\ world.parse = "raise"

\* C7 as claimed: a fault raised while parsing escapes the task and the
\* person has no row in the final output.
C7_AsClaimed ==
    \A i \in Tasks :
        (status[i] = "done" /\ ParseFault(env[i])) =>
            /\ future[i].raised
            /\ pc = "done" => RowsOf(output.rows, i) = {}

\* C7, amended: a fault raised while parsing is caught inside
\* get_person_data like a network fault: the task returns a failure whose
\* Error is the fault's message and the person has exactly one row in the
\* final output; only a task that raises outside that try (the future
\* raises) has no row.
C7_ParseFaultIsFailure ==
    \A i \in Tasks :
        /\ (status[i] = "done" /\ ParseFault(env[i])) =>
            /\ ~future[i].raised
            /\ future[i].result.Error = env[i].message
            /\ IsFailure(future[i].result)
            /\ pc = "done" =>
                /\ Cardinality(RowsOf(output.rows, i)) = 1
                /\ \A r \in RowsOf(output.rows, i) :
                    /\ output.rows[r].Error = env[i].message
                    /\ DOMAIN output.rows[r] \cap EventFields = {}
        /\ (status[i] = "done" /\ future[i].raised) =>
            /\ env[i].scraper = "raise"
            /\ pc = "done" => RowsOf(output.rows, i) = {}

\* C7's case: the run is over; one person's parsing raised and another
\* person's task raised outside the try.
C7_Witness ==
    /\ pc = "done"
    /\ \E i \in Tasks : ParseFault(env[i])
    /\ \E i \in Tasks : future[i].raised

\* The tasks that are over and raised.
Raised == {i \in Tasks : status[i] = "done" /\ future[i].raised}

\* The results of the first n completed tasks that returned, in completion
\* order.
RECURSIVE ReturnedResults(_)
ReturnedResults(n) ==
    IF n = 0 THEN << >>
    ELSE IF future[completed[n]].raised THEN ReturnedResults(n - 1)
    ELSE Append(ReturnedResults(n - 1), future[completed[n]].result)

\* C6: a person whose task raised is in no result, no checkpoint and no
\* final row; every consumed task that returned has its result in the
\* list; the loop ends only when every task was consumed, with as many
\* results as the roster has records minus the tasks that raised.
C6_RaisedTaskDropped ==
    /\ \A i \in Raised :
        /\ RowsOf(results, i) = {}
        /\ RowsOf(output.rows, i) = {}
        /\ \A w \in 1..Len(writes) : RowsOf(writes[w].rows, i) = {}
    /\ \A c \in 1..consumed :
        ~future[completed[c]].raised => RowsOf(results, completed[c]) # {}
    /\ pc \in {"expand", "save", "done"} =>
        /\ consumed = Len(records)
        /\ Len(results) = Len(records) - Cardinality(Raised)

\* C6's case: the run is over, a task raised and a task that completed
\* after it returned.
C6_Witness ==
    /\ pc = "done"
    /\ \E c, d \in 1..Len(completed) :
        c < d /\ future[completed[c]].raised /\ ~future[completed[d]].raised

\* C8: every roster record has one task, which completes at most once; the
\* result list is exactly the results of the consumed tasks that returned,
\* so it never runs ahead of main's loop and holds at most one entry per
\* roster record.
C8_OneTaskOneResult ==
    /\ DOMAIN status = 1..Len(records)
    /\ \A c, d \in 1..Len(completed) : c # d => completed[c] # completed[d]
    /\ \A i \in Tasks : status[i] = "done" <=> \E c \in 1..Len(completed) : completed[c] = i
    /\ consumed <= Len(completed)
    /\ results = ReturnedResults(consumed)
    /\ \A i \in Tasks : Cardinality(RowsOf(results, i)) <= 1

\* C8's case: the run is over, with two results in the list and a task that
\* raised.
C8_Witness ==
    /\ pc = "done"
    /\ Raised # {}
    /\ Len(results) >= 2

\* The checkpoint writes that were attempted, as positions of the write log.
CheckpointWrites == {w \in 1..Len(writes) : writes[w].kind = "checkpoint"}

\* C9: the j-th checkpoint write is made when the list reaches j times the
\* interval, and there is one for every multiple reached (none below the
\* interval); what it writes is the whole list of that moment, one compact
\* record per person; a checkpoint that succeeds replaces the file's content.
C9_CheckpointWhenDue ==
    /\ Cardinality(CheckpointWrites) = Len(results) \div CheckpointEvery
    /\ \A w \in CheckpointWrites :
        LET j == Cardinality({v \in CheckpointWrites : v <= w})
        IN /\ Len(writes[w].rows) = j * CheckpointEvery
           /\ writes[w].rows = SubSeq(results, 1, j * CheckpointEvery)
           /\ \A r \in 1..Len(writes[w].rows) : "Events" \in DOMAIN writes[w].rows[r]
    /\ (writes # << >> /\ writes[Len(writes)].kind = "checkpoint" /\ writes[Len(writes)].ok) =>
        output = [writer |-> "checkpoint", rows |-> writes[Len(writes)].rows]

\* C9's case: the second checkpoint has just been written over the first.
C9_Witness ==
    /\ pc = "loop"
    /\ Cardinality(Checkpoints) = 2
    /\ writes[Len(writes)].ok
    /\ Len(output.rows) = 2 * CheckpointEvery

\* The state the run ends in: every task is done and consumed, the write
\* log ends with its only final write, made after all of that, and the file
\* holds the expanded table.
RunFinished ==
    /\ pc = "done"
    /\ \A i \in Tasks : status[i] = "done"
    /\ consumed = Len(records)
    /\ writes # << >>
    /\ writes[Len(writes)].kind = "final"
    /\ writes[Len(writes)].at = Len(records)
    /\ Cardinality({w \in 1..Len(writes) : writes[w].kind = "final"}) = 1
    /\ output.writer = "final"
    /\ Len(output.rows) = RowsDue(results, Len(results))
    /\ \A r \in 1..Len(output.rows) : "Events" \notin DOMAIN output.rows[r]

C11_AtMostWorkers ==
    /\ Cardinality(Running) <= WORKERS
    /\ Cardinality(Running) = WORKERS => \A i \in Tasks : ~ENABLED Start(i)

\* C11's case: every worker is busy and a task is still waiting.
C11_Witness ==
    /\ Cardinality(Running) = WORKERS
    /\ \E i \in Tasks : status[i] = "pending"

\* C12: every result a task returns has exactly one variant populated: a
\* Failure (non-empty Error; url, summary, profile and events empty) or a
\* Success (empty Error, url set), also when the exception caught has the
\* empty string as its message.
C12_AsClaimed ==
    \A i \in Tasks :
        (status[i] = "done" /\ ~future[i].raised) =>
            LET result == future[i].result
            IN  \/ result.Error # "" /\ IsFailure(result)
                \/ result.Error = "" /\ result.Wikipedia_URL # << >>

\* The position of a category in the fixed order of sections.
SectionIndex(type) == CHOOSE s \in 1..Len(sections) : sections[s].name = type

\* C13: extract_events returns at most one event per category and at most
\* five in all; every event's type is one of the five categories, its
\* content is not empty, and the events are in the fixed category order.
C13_EventsWellFormed ==
    pc = "extracted" =>
        /\ Len(events) <= 5
        /\ \A e \in 1..Len(events) :
            /\ events[e].type \in {sections[s].name : s \in 1..Len(sections)}
            /\ events[e].content # << >>
        /\ \A e, f \in 1..Len(events) :
            e < f => SectionIndex(events[e].type) < SectionIndex(events[f].type)

\* C13's case: a document gave several events, and a paragraph of it has no
\* text once cleaned.
C13_Witness ==
    /\ pc = "extracted"
    /\ Len(events) >= 2
    /\ \E i \in 1..Len(doc) : doc[i].name = "p" /\ clean_text(doc[i].text) = << >>

\* C14: a cleaned text has no two consecutive whitespace characters, no
\* citation marker '[' digits ']' (whatever the nesting or adjacency of the
\* markers of the input), and no leading whitespace.
C14_AsClaimed ==
    pc = "cleaned" =>
        /\ \A i \in 1..(Len(cleaned) - 1) :
            ~(cleaned[i] \in Whitespace /\ cleaned[i + 1] \in Whitespace)
        /\ \A i \in 1..Len(cleaned) : CitationAt(cleaned, i) = 0
        /\ cleaned # << >> => cleaned[1] \notin Whitespace

\* C15: the summary of a result has at most SummaryCap characters and the
\* content of each of its events at most ContentCap, whatever the number
\* and length of the paragraphs joined; every text clean_text returns (a
\* paragraph, a profile label, a profile value) has at most CleanCap.
C15_LengthCaps ==
    /\ \A i \in Tasks :
        (status[i] = "done" /\ ~future[i].raised) =>
            LET result == future[i].result
            IN  /\ Len(result.Summary) <= SummaryCap
                /\ \A e \in 1..Len(result.Events) :
                    Len(result.Events[e].content) <= ContentCap
                /\ \A key \in DOMAIN result.Infobox :
                    Len(key) <= CleanCap /\ Len(result.Infobox[key]) <= CleanCap
    /\ pc = "cleaned" => Len(cleaned) <= CleanCap

\* C15's case: a task returned for a page whose summary, profile value,
\* paragraphs and joined paragraphs are all longer than their caps, and
\* each was cut to its cap.
C15_Witness ==
    \E i \in Tasks :
        /\ status[i] = "done"
        /\ ~future[i].raised
        /\ Len(env[i].summary) > SummaryCap
        /\ Len(future[i].result.Summary) = SummaryCap
        /\ \E e \in 1..Len(future[i].result.Events) :
            /\ Len(future[i].result.Events[e].content) = ContentCap
            /\ Len(Join(SiblingContent(env[i].body, 2))) > ContentCap
        /\ \E key \in DOMAIN future[i].result.Infobox :
            Len(future[i].result.Infobox[key]) = CleanCap

\* In a list of results or rows, everything of task a is before everything
\* of task b.
Precedes(rows, a, b) ==
    \A r \in RowsOf(rows, a), q \in RowsOf(rows, b) : r < q

\* C16: results are in completion order, not submission order: when task a
\* completed before task b, a's result is before b's in the result list,
\* in every checkpoint and in the rows of the final output.
C16_CompletionOrder ==
    \A c, d \in 1..Len(completed) :
        c < d =>
            /\ Precedes(results, completed[c], completed[d])
            /\ \A w \in 1..Len(writes) :
                Precedes(writes[w].rows, completed[c], completed[d])
            /\ Precedes(output.rows, completed[c], completed[d])

\* C16's case: the run is over; a task submitted later completed before one
\* submitted earlier, both returned, and a checkpoint and the final output
\* hold both.
C16_Witness ==
    /\ pc = "done"
    /\ \E c, d \in 1..Len(completed) :
        /\ c < d
        /\ completed[c] > completed[d]
        /\ \E w \in 1..Len(writes) :
            /\ writes[w].kind = "checkpoint"
            /\ RowsOf(writes[w].rows, completed[c]) # {}
            /\ RowsOf(writes[w].rows, completed[d]) # {}
        /\ Cardinality(RowsOf(output.rows, completed[c])) >= 2
        /\ RowsOf(output.rows, completed[d]) # {}

\* C17: the identifier of a name is the name with every space replaced by
\* one underscore and nothing else changed; mapping an identifier again
\* leaves it unchanged; and within one task the page lookup and the markup
\* URL use the same identifier.
C17_Identifier ==
    \A i \in Tasks :
        \A k \in 1..Len(calls[i]) :
            LET name == records[i].Name
                id == calls[i][k].id
            IN  /\ id = calls[i][1].id
                /\ Len(id) = Len(name)
                /\ \A j \in 1..Len(name) :
                    id[j] = IF name[j] = " " THEN "_" ELSE name[j]
                /\ Replace(id, " ", "_") = id

\* C17's case: a task whose person's name has several spaces looked the
\* page up and requested its markup.
C17_Witness ==
    \E i \in Tasks :
        /\ Len(calls[i]) = 2
        /\ calls[i][1].op = "page"
        /\ calls[i][2].op = "get"
        /\ Cardinality({j \in 1..Len(records[i].Name) : records[i].Name[j] = " "}) >= 2

\* The paragraphs with text that follow the heading at position h before
\* the next h2/h3.
ParagraphsAfter(body, h) ==
    {j \in (h + 1)..Len(body) :
        /\ body[j].name = "p"
        /\ clean_text(body[j].text) # << >>
        /\ \A m \in (h + 1)..j : body[m].name \notin HeadingTags}

\* The h2/h3 headings that contain some keyword of section s.
HeadingsOf(body, s) ==
    {i \in 1..Len(body) :
        \E k \in 1..Len(sections[s].keywords) :
            HeadingMatches(body[i], sections[s].keywords[k])}

\* C18: a category commits to the first heading in document order that
\* contains the first of its keywords that some h2/h3 contains.  If that
\* heading has a paragraph with text before the next h2/h3, the category
\* has one event, with those paragraphs; if not, it has no event, even when
\* a heading containing a later keyword has such paragraphs.
C18_FirstKeywordCommits ==
    pc = "extracted" =>
        \A s \in 1..Len(sections) :
            LET h == SelectedHeading(doc, s)
                found == EventsOfType(events, sections[s].name)
            IN  IF h = 0 \/ ParagraphsAfter(doc, h) = {}
                THEN found = {}
                ELSE /\ Cardinality(found) = 1
                     /\ \A e \in found :
                         events[e].content =
                             Take(Join(SiblingContent(doc, h + 1)), ContentCap)

\* C18's case: the heading a category commits to is not the earliest that
\* contains one of its keywords; it has no paragraph while the earlier one
\* has, and the category has no event.
C18_Witness ==
    /\ pc = "extracted"
    /\ \E s \in 1..Len(sections) :
        /\ SelectedHeading(doc, s) # 0
        /\ ParagraphsAfter(doc, SelectedHeading(doc, s)) = {}
        /\ \E i \in HeadingsOf(doc, s) :
            /\ i < SelectedHeading(doc, s)
            /\ ParagraphsAfter(doc, i) # {}
        /\ EventsOfType(events, sections[s].name) = {}

\* The checkpoint writes that failed.
FailedWrites == {w \in 1..Len(writes) : writes[w].kind = "checkpoint" /\ ~writes[w].ok}

\* C19: a checkpoint write that fails removes nothing and stops nothing: the
\* list it tried to write, its last result included, stays the head of the
\* result list; the loop is left only when every future was consumed; and
\* when the run is over the final write was made and every person of that
\* list has a row in the output.
C19_FailedCheckpoint ==
    \A w \in FailedWrites :
        /\ Len(writes[w].rows) <= Len(results)
        /\ SubSeq(results, 1, Len(writes[w].rows)) = writes[w].rows
        /\ pc \in {"expand", "save", "done"} => consumed = Len(records)
        /\ pc = "done" =>
            /\ writes[Len(writes)].kind = "final"
            /\ output.writer = "final"
            /\ \A r \in 1..Len(writes[w].rows) :
                \E q \in 1..Len(output.rows) : output.rows[q].Name = writes[w].rows[r].Name

\* C19's case: the run is over; a checkpoint write failed leaving the file
\* truncated or untouched, and results were appended after it.
C19_Witness ==
    /\ pc = "done"
    /\ \E w \in FailedWrites :
        /\ Len(results) > Len(writes[w].rows)
        /\ writes[w].at < consumed

\* The rows the outcome of task i entitles its person to: none when the
\* task raised, the expansion of its result when it returned.
OutcomeRows(i) ==
    IF future[i].raised THEN << >> ELSE ExpandPerson(future[i].result)

\* The rows of the outcomes of tasks i.., in submission order.
RECURSIVE OutcomeRowsFrom(_)
OutcomeRowsFrom(i) ==
    IF i > Len(records) THEN << >>
    ELSE OutcomeRows(i) \o OutcomeRowsFrom(i + 1)

\* How many times a row occurs in a table.
Count(rows, row) == Cardinality({r \in 1..Len(rows) : rows[r] = row})

Range(rows) == {rows[r] : r \in 1..Len(rows)}

\* C20: the multiset of rows of the final output is a function of the
\* tasks' outcomes alone: whatever the interleaving and the completion
\* order, it is the multiset of the rows of the outcomes taken in
\* submission order.
C20_SameRows ==
    pc = "done" =>
        /\ \A i \in Tasks : status[i] = "done"
        /\ \A row \in Range(output.rows) \cup Range(OutcomeRowsFrom(1)) :
            Count(output.rows, row) = Count(OutcomeRowsFrom(1), row)

\* C20's case: the run is over; tasks completed out of submission order, so
\* that the output has the rows of the outcomes in another order, and a
\* task that raised is among them.
C20_Witness ==
    /\ pc = "done"
    /\ Len(output.rows) >= 4
    /\ output.rows # OutcomeRowsFrom(1)
    /\ \E i \in Tasks : future[i].raised

====
